---- MODULE Spec2Model ----
(***************************************************************************)
(* register_ip.sh: registration of the host's public IPv4 address with    *)
(* the DNS subdomain service, with the port 80 -> 8000 NAT redirect rules  *)
(* taken out of the way during address discovery and put back afterwards.  *)
(*                                                                         *)
(* Text (command output, shell variables holding it) is a sequence of      *)
(* one-character strings, so that grep, tr, tail, sed and the command      *)
(* substitution are computed character by character.                       *)
(***************************************************************************)
EXTENDS Integers, Sequences, FiniteSets, TLC

\* The largest number of copies of one redirect rule in the NAT table
\* before a run starts (iptables -A appends a copy even if one exists).
MaxCopies == 1

\* The runs of the script on the host; Spec starts one of them.
RunIds == {"run1", "run2"}

Chains == {"PREROUTING", "OUTPUT"}

VARIABLES
    nat,                       \* live NAT table: chain -> copies of the redirect rule
    saved,                     \* rule set last written by netfilter-persistent save
    runs,                      \* the runs that were started
    pc,                        \* run -> position in the script
    USERNAME, LABEL, TOKEN,    \* run -> shell variable
    HAS_PREROUTING, HAS_OUTPUT, PORT_FORWARDING_DISABLED,
    PUBLIC_IP,                 \* run -> text
    HTTP_CODE, BODY,           \* run -> text
    message,                   \* run -> the last SUCCESS/ERROR line echoed
    exitCode,                  \* run -> exit status, -1 while the run is going
    calls                      \* run -> the external commands issued so far, in order

vars == <<nat, saved, runs, pc, USERNAME, LABEL, TOKEN, HAS_PREROUTING, HAS_OUTPUT,
          PORT_FORWARDING_DISABLED, PUBLIC_IP, HTTP_CODE, BODY, message, exitCode, calls>>

creds == <<USERNAME, LABEL, TOKEN>>
snapshot == <<HAS_PREROUTING, HAS_OUTPUT, PORT_FORWARDING_DISABLED>>
reply == <<HTTP_CODE, BODY>>

-----------------------------------------------------------------------------
\* Text processing

Digits == {"0", "1", "2", "3", "4", "5", "6", "7", "8", "9"}

\* The characters of the class [:space:] that occur in the modelled texts.
SpaceChars == {" ", "\n", "\t"}

Min(a, b) == IF a < b THEN a ELSE b

\* $(...) removes every trailing newline of the command's output.
RECURSIVE CmdSubst(_)
CmdSubst(out) ==
    IF out # <<>> /\ out[Len(out)] = "\n"
    THEN CmdSubst(SubSeq(out, 1, Len(out) - 1))
    ELSE out

\* echo "$s" | ... : the lines the next command of the pipe reads.
RECURSIVE Lines(_)
Lines(s) ==
    IF \E i \in 1..Len(s) : s[i] = "\n"
    THEN LET i == CHOOSE j \in 1..Len(s) : s[j] = "\n" /\ \A k \in 1..(j - 1) : s[k] # "\n"
         IN  <<SubSeq(s, 1, i - 1)>> \o Lines(SubSeq(s, i + 1, Len(s)))
    ELSE <<s>>

\* Number of consecutive digits of s from position i on.
RECURSIVE RunLen(_, _)
RunLen(s, i) ==
    IF i >= 1 /\ i <= Len(s) /\ s[i] \in Digits THEN 1 + RunLen(s, i + 1) ELSE 0

\* [0-9]{1,3}\. matched at position i: the position after the dot, 0 if no match.
AfterGroupDot(s, i) ==
    LET r == RunLen(s, i)
    IN  IF i >= 1 /\ r \in 1..3 /\ i + r <= Len(s) /\ s[i + r] = "."
        THEN i + r + 1
        ELSE 0

\* Length of the longest match of ^[0-9]{1,3}\.[0-9]{1,3}\.[0-9]{1,3}\.[0-9]{1,3}
\* at the start of s, 0 if there is none.
QuadPrefixLen(s) ==
    LET After[i \in 0..(Len(s) + 1)] == AfterGroupDot(s, i)
        Run[i \in 0..(Len(s) + 1)] == RunLen(s, i)
        p2 == After[1]
        p3 == After[p2]
        p4 == After[p3]
        r  == Run[p4]
    IN  IF p4 >= 1 /\ r >= 1 THEN p4 - 1 + Min(r, 3) ELSE 0

\* One line matches ^[0-9]{1,3}\.[0-9]{1,3}\.[0-9]{1,3}\.[0-9]{1,3}$
LineIsQuad(line) == line # <<>> /\ QuadPrefixLen(line) = Len(line)

\* echo "$s" | grep -qE '^[0-9]{1,3}\.[0-9]{1,3}\.[0-9]{1,3}\.[0-9]{1,3}$'
\* grep succeeds when some line of its input matches.
GrepQuad(s) == \E k \in 1..Len(Lines(s)) : LineIsQuad(Lines(s)[k])

\* [ -n "$PUBLIC_IP" ] && echo "$PUBLIC_IP" | grep -qE '^...$'
CandidateAccepted(s) == s # <<>> /\ GrepQuad(s)

\* tr -d '[:space:]'
TrDeleteSpace(s) == SelectSeq(s, LAMBDA c : c \notin SpaceChars)

\* echo "$s" | tr -d '[:space:]' | grep -oE '^[0-9]{1,3}\....' | head -1, in $(...)
Sanitize(s) ==
    LET t == TrDeleteSpace(s)
    IN  CmdSubst(SubSeq(t, 1, QuadPrefixLen(t)))

\* tail -n1 of echo "$s"
TailLine(s) == Lines(s)[Len(Lines(s))]

\* sed '$d' of echo "$s": every line but the last, each ended by a newline
RECURSIVE JoinLines(_)
JoinLines(ls) == IF ls = <<>> THEN <<>> ELSE Head(ls) \o <<"\n">> \o JoinLines(Tail(ls))
SedDeleteLast(s) == JoinLines(SubSeq(Lines(s), 1, Len(Lines(s)) - 1))

DigitValue(c) == CHOOSE n \in 0..9 : <<"0", "1", "2", "3", "4", "5", "6", "7", "8", "9">>[n + 1] = c

\* The integer [ reads in a decimal text; -1 when the text is no integer
\* ([ then fails with status 2).
RECURSIVE ToInt(_)
ToInt(s) ==
    IF s = <<>> \/ \E i \in 1..Len(s) : s[i] \notin Digits
    THEN -1
    ELSE IF Len(s) = 1
         THEN DigitValue(s[1])
         ELSE 10 * ToInt(SubSeq(s, 1, Len(s) - 1)) + DigitValue(s[Len(s)])

-----------------------------------------------------------------------------
\* The environment of a run

\* What a variable of .env or a line typed at a prompt can be: nothing or a value.
Inputs == {"", "value"}

\* What a discovery source can print before curl ends: nothing; an address
\* and a newline; a page with an address on a line of its own; an address
\* followed by other text.
Responses ==
    { <<>>,
      <<"2", "0", "3", ".", "0", ".", "1", "1", "3", ".", "7", "\n">>,
      <<"a", "\n", "1", ".", "2", ".", "3", ".", "4">>,
      <<"1", ".", "2", ".", "3", ".", "4", " ", "a">> }

\* curl's exit status: 0, or not 0 (no connection, timeout, transfer cut short).
CurlExits == {"ok", "fail"}

\* What the registration call can print: the body, and the status that
\* curl -w "%{http_code}" adds, 000 when no response arrived. The bodies are
\* a JSON text, none, and a text that is no JSON.
Replies ==
    { <<<<"{", "}">>, <<"2", "0", "0">>>>,
      <<<<"{", "}">>, <<"2", "0", "1">>>>,
      <<<<>>, <<"2", "0", "4">>>>,
      <<<<"x">>, <<"4", "0", "4">>>>,
      <<<<>>, <<"0", "0", "0">>>> }

\* The four sources, in the order of the script.
Sources == <<"metadata", "checkip_https", "ipify_https", "checkip_http">>

Event(op, arg, res, val) == [op |-> op, arg |-> arg, res |-> res, val |-> val]

\* Of a register event: the ipAddress of the payload, the status of the response.
IpAddressOf(e) == e.val[1]
StatusOf(e) == e.val[2]

\* A text when it is one dotted quad, else nothing.
QuadValue(s) == IF LineIsQuad(s) THEN s ELSE <<>>

\* iptables -C on a chain: exit 0 when a copy of the rule is there; otherwise
\* not 0, be it that no copy is there or that the query itself failed
\* (sudo refused, xtables lock held).
CheckResults(c) == IF nat[c] > 0 THEN {"present", "error"} ELSE {"absent", "error"}

Has(p, c) == IF c = "PREROUTING" THEN HAS_PREROUTING[p] ELSE HAS_OUTPUT[p]

Log(p, e) == calls' = [calls EXCEPT ![p] = Append(@, e)]

Goto(p, label) == pc' = [pc EXCEPT ![p] = label]

Init ==
    /\ nat \in [Chains -> 0..MaxCopies]
    /\ saved = nat
    /\ runs = {"run1"}
    /\ pc = [p \in RunIds |-> "prompt"]
    \* after ". .env": each of the three is set or not
    /\ USERNAME \in [RunIds -> Inputs]
    /\ LABEL \in [RunIds -> Inputs]
    /\ TOKEN \in [RunIds -> Inputs]
    /\ \A p \in RunIds \ runs : USERNAME[p] = "" /\ LABEL[p] = "" /\ TOKEN[p] = ""
    /\ HAS_PREROUTING = [p \in RunIds |-> FALSE]
    /\ HAS_OUTPUT = [p \in RunIds |-> FALSE]
    /\ PORT_FORWARDING_DISABLED = [p \in RunIds |-> FALSE]
    /\ PUBLIC_IP = [p \in RunIds |-> <<>>]
    /\ HTTP_CODE = [p \in RunIds |-> <<>>]
    /\ BODY = [p \in RunIds |-> <<>>]
    /\ message = [p \in RunIds |-> ""]
    /\ exitCode = [p \in RunIds |-> -1]
    /\ calls = [p \in RunIds |-> <<>>]

\* exit n
Exit(p, n, msg) ==
    /\ Goto(p, "exited")
    /\ exitCode' = [exitCode EXCEPT ![p] = n]
    /\ message' = [message EXCEPT ![p] = msg]

-----------------------------------------------------------------------------
\* Inputs

\* read -p for each of the three that .env left empty
PromptInputs(p) ==
    /\ pc[p] = "prompt"
    /\ \E u \in Inputs, l \in Inputs, t \in Inputs :
         /\ USERNAME' = [USERNAME EXCEPT ![p] = IF @ = "" THEN u ELSE @]
         /\ LABEL' = [LABEL EXCEPT ![p] = IF @ = "" THEN l ELSE @]
         /\ TOKEN' = [TOKEN EXCEPT ![p] = IF @ = "" THEN t ELSE @]
    /\ Goto(p, "validate")
    /\ UNCHANGED <<nat, saved, runs, snapshot, PUBLIC_IP, reply, message, exitCode, calls>>

\* InputsMissing with the test of the label left out
InputsMissing_LabelForgotten(u, t, l) == u = "" \/ t = ""

\* [ -z "$USERNAME" ] || [ -z "$TOKEN" ] || [ -z "$LABEL" ]
InputsMissing(u, t, l) == u = "" \/ t = "" \/ l = ""

ValidateInputs(p) ==
    /\ pc[p] = "validate"
    /\ IF InputsMissing(USERNAME[p], TOKEN[p], LABEL[p])
       THEN Exit(p, 1, "ERROR: Username, token, and label are all required")
       ELSE Goto(p, "inspect_prerouting") /\ UNCHANGED <<exitCode, message>>
    /\ UNCHANGED <<nat, saved, runs, creds, snapshot, PUBLIC_IP, reply, calls>>

-----------------------------------------------------------------------------
\* Snapshot of the redirect rules and their suspension

InspectPrerouting(p) ==
    /\ pc[p] = "inspect_prerouting"
    /\ \E r \in CheckResults("PREROUTING") :
         /\ HAS_PREROUTING' = [HAS_PREROUTING EXCEPT ![p] = (r = "present")]
         /\ Log(p, Event("inspect", "PREROUTING", r, <<>>))
    /\ HAS_OUTPUT' = [HAS_OUTPUT EXCEPT ![p] = FALSE]
    /\ PORT_FORWARDING_DISABLED' = [PORT_FORWARDING_DISABLED EXCEPT ![p] = FALSE]
    /\ Goto(p, "inspect_output")
    /\ UNCHANGED <<nat, saved, runs, creds, PUBLIC_IP, reply, message, exitCode>>

InspectOutput(p) ==
    /\ pc[p] = "inspect_output"
    /\ \E r \in CheckResults("OUTPUT") :
         /\ HAS_OUTPUT' = [HAS_OUTPUT EXCEPT ![p] = (r = "present")]
         /\ Log(p, Event("inspect", "OUTPUT", r, <<>>))
    /\ Goto(p, "suspend_prerouting")
    /\ UNCHANGED <<nat, saved, runs, creds, HAS_PREROUTING, PORT_FORWARDING_DISABLED,
                   PUBLIC_IP, reply, message, exitCode>>

\* sudo iptables -t nat -D <chain> ... 2>/dev/null || true
\* One copy of the rule goes when the command succeeds; it fails when there is
\* no copy, and it can fail for a reason of its own.
Remove(p, c) ==
    \E ok \in BOOLEAN :
       /\ ok => nat[c] > 0
       /\ nat' = [nat EXCEPT ![c] = IF ok THEN @ - 1 ELSE @]
       /\ Log(p, Event("remove", c, IF ok THEN "ok" ELSE "fail", <<>>))

\* sudo iptables -t nat -A <chain> ... 2>/dev/null || true
\* A copy of the rule is appended when the command succeeds.
Install(p, c) ==
    \E ok \in BOOLEAN :
       /\ nat' = [nat EXCEPT ![c] = IF ok THEN @ + 1 ELSE @]
       /\ Log(p, Event("install", c, IF ok THEN "ok" ELSE "fail", <<>>))

SuspendPrerouting(p) ==
    /\ pc[p] = "suspend_prerouting"
    /\ PORT_FORWARDING_DISABLED' =
         [PORT_FORWARDING_DISABLED EXCEPT ![p] = HAS_PREROUTING[p] \/ HAS_OUTPUT[p]]
    /\ IF HAS_PREROUTING[p]
       THEN Remove(p, "PREROUTING")
       ELSE UNCHANGED <<nat, calls>>
    /\ Goto(p, "suspend_output")
    /\ UNCHANGED <<saved, runs, creds, HAS_PREROUTING, HAS_OUTPUT, PUBLIC_IP, reply,
                   message, exitCode>>

\* SuspendOutput without the test of HAS_OUTPUT
SuspendOutput_Unconditional(p) ==
    /\ pc[p] = "suspend_output"
    /\ Remove(p, "OUTPUT")
    /\ Goto(p, "metadata")
    /\ UNCHANGED <<saved, runs, creds, snapshot, PUBLIC_IP, reply, message, exitCode>>

SuspendOutput(p) ==
    /\ pc[p] = "suspend_output"
    /\ IF HAS_OUTPUT[p]
       THEN Remove(p, "OUTPUT")
       ELSE UNCHANGED <<nat, calls>>
    /\ Goto(p, "metadata")
    /\ UNCHANGED <<saved, runs, creds, snapshot, PUBLIC_IP, reply, message, exitCode>>

-----------------------------------------------------------------------------
\* Address discovery

\* PUBLIC_IP after one of the first three blocks: the captured output stays
\* when curl failed, and when curl succeeded and the check accepts it.
AnchoredSource(captured, rc) ==
    IF rc = "ok"
    THEN IF CandidateAccepted(captured) THEN captured ELSE <<>>
    ELSE captured

\* PUBLIC_IP after the HTTP fallback block
FallbackSource(captured, rc) ==
    IF rc = "ok" THEN Sanitize(captured) ELSE captured

\* The dotted quad a source yields, nothing when its candidate is none:
\* the captured output, and for the fallback what its clean-up leaves of it.
Yielded(k, captured, rc) ==
    QuadValue(IF k = 4 THEN FallbackSource(captured, rc) ELSE captured)

\* SourceWanted without the guard: every block asks its source
SourceWanted_Always(ip) == TRUE

\* [ -z "$PUBLIC_IP" ] before the blocks of the second to fourth source
SourceWanted(ip) == ip = <<>>

\* One block of the chain: the k-th source is asked unless the guard skips it.
TrySource(p, k, guarded, next) ==
    /\ IF guarded => SourceWanted(PUBLIC_IP[p])
       THEN \E out \in Responses, rc \in CurlExits :
              LET captured == CmdSubst(out)
              IN  /\ PUBLIC_IP' = [PUBLIC_IP EXCEPT ![p] =
                                     IF k = 4 THEN FallbackSource(captured, rc)
                                              ELSE AnchoredSource(captured, rc)]
                  /\ Log(p, Event("discover", Sources[k], rc, Yielded(k, captured, rc)))
       ELSE UNCHANGED <<PUBLIC_IP, calls>>
    /\ Goto(p, next)
    /\ UNCHANGED <<nat, saved, runs, creds, snapshot, reply, message, exitCode>>

TryMetadata(p) ==
    /\ pc[p] = "metadata"
    /\ TrySource(p, 1, FALSE, "checkip_https")

TryCheckipHttps(p) ==
    /\ pc[p] = "checkip_https"
    /\ TrySource(p, 2, TRUE, "ipify_https")

TryIpifyHttps(p) ==
    /\ pc[p] = "ipify_https"
    /\ TrySource(p, 3, TRUE, "checkip_http")

TryCheckipHttp(p) ==
    /\ pc[p] = "checkip_http"
    /\ TrySource(p, 4, TRUE, "validate_ip")

\* [ -z "$PUBLIC_IP" ] || ! echo "$PUBLIC_IP" | grep -qE '^...$'
IpRejected(ip) == ip = <<>> \/ ~GrepQuad(ip)

ValidateIp(p) ==
    /\ pc[p] = "validate_ip"
    /\ Goto(p, IF IpRejected(PUBLIC_IP[p]) THEN "fail_restore_prerouting" ELSE "register")
    /\ UNCHANGED <<nat, saved, runs, creds, snapshot, PUBLIC_IP, reply, message, exitCode,
                   calls>>

-----------------------------------------------------------------------------
\* No address: put the rules back and give up

\* FailRestorePrerouting leaving the PREROUTING rule out of the restoration
FailRestorePrerouting_Skipped(p) ==
    /\ pc[p] = "fail_restore_prerouting"
    /\ Goto(p, "fail_restore_output")
    /\ UNCHANGED <<nat, calls, saved, runs, creds, snapshot, PUBLIC_IP, reply, message,
                   exitCode>>

\* FailRestorePrerouting without the || true, in a script that stops at a
\* failed command
FailRestorePrerouting_AbortOnFailure(p) ==
    /\ pc[p] = "fail_restore_prerouting"
    /\ IF PORT_FORWARDING_DISABLED[p] /\ HAS_PREROUTING[p]
       THEN /\ Install(p, "PREROUTING")
            /\ IF nat' = nat
               THEN /\ Goto(p, "exited")
                    /\ exitCode' = [exitCode EXCEPT ![p] = 1]
               ELSE Goto(p, "fail_restore_output") /\ UNCHANGED exitCode
       ELSE /\ UNCHANGED <<nat, calls, exitCode>>
            /\ Goto(p, "fail_restore_output")
    /\ UNCHANGED <<saved, runs, creds, snapshot, PUBLIC_IP, reply, message>>

FailRestorePrerouting(p) ==
    /\ pc[p] = "fail_restore_prerouting"
    /\ IF PORT_FORWARDING_DISABLED[p] /\ HAS_PREROUTING[p]
       THEN Install(p, "PREROUTING")
       ELSE UNCHANGED <<nat, calls>>
    /\ Goto(p, "fail_restore_output")
    /\ UNCHANGED <<saved, runs, creds, snapshot, PUBLIC_IP, reply, message, exitCode>>

\* FailRestoreOutput leaving the OUTPUT rule out of the restoration
FailRestoreOutput_Skipped(p) ==
    /\ pc[p] = "fail_restore_output"
    /\ Goto(p, "fail_exit")
    /\ UNCHANGED <<nat, calls, saved, runs, creds, snapshot, PUBLIC_IP, reply, message,
                   exitCode>>

FailRestoreOutput(p) ==
    /\ pc[p] = "fail_restore_output"
    /\ IF PORT_FORWARDING_DISABLED[p] /\ HAS_OUTPUT[p]
       THEN Install(p, "OUTPUT")
       ELSE UNCHANGED <<nat, calls>>
    /\ Goto(p, "fail_exit")
    /\ UNCHANGED <<saved, runs, creds, snapshot, PUBLIC_IP, reply, message, exitCode>>

ExitAddressUnavailable(p) ==
    /\ pc[p] = "fail_exit"
    /\ Exit(p, 1, "ERROR: Could not determine public IP address")
    /\ UNCHANGED <<nat, saved, runs, creds, snapshot, PUBLIC_IP, reply, calls>>

-----------------------------------------------------------------------------
\* Registration

\* curl -s -w "\n%{http_code}": the body, a newline, the status
CurlResponse(body, code) == CmdSubst(body \o <<"\n">> \o code)

\* Register printing the verdict as soon as the response is in
Register_ReportsFirst(p) ==
    /\ pc[p] = "register"
    /\ \E r \in Replies :
         /\ LET RESPONSE == CurlResponse(r[1], r[2])
            IN  /\ HTTP_CODE' = [HTTP_CODE EXCEPT ![p] = CmdSubst(TailLine(RESPONSE))]
                /\ BODY' = [BODY EXCEPT ![p] = CmdSubst(SedDeleteLast(RESPONSE))]
         /\ Log(p, Event("register", "setip", "sent", <<PUBLIC_IP[p], r[2]>>))
         /\ message' = [message EXCEPT ![p] =
                          IF r[2] = <<"2", "0", "0">> THEN "SUCCESS"
                                                     ELSE "ERROR: Registration failed"]
    /\ Goto(p, "recheck_prerouting")
    /\ UNCHANGED <<nat, saved, runs, creds, snapshot, PUBLIC_IP, exitCode>>

Register(p) ==
    /\ pc[p] = "register"
    /\ \E r \in Replies :
         /\ LET RESPONSE == CurlResponse(r[1], r[2])
            IN  /\ HTTP_CODE' = [HTTP_CODE EXCEPT ![p] = CmdSubst(TailLine(RESPONSE))]
                /\ BODY' = [BODY EXCEPT ![p] = CmdSubst(SedDeleteLast(RESPONSE))]
         /\ Log(p, Event("register", "setip", "sent", <<PUBLIC_IP[p], r[2]>>))
    /\ Goto(p, "recheck_prerouting")
    /\ UNCHANGED <<nat, saved, runs, creds, snapshot, PUBLIC_IP, message, exitCode>>

-----------------------------------------------------------------------------
\* Putting the rules back after the registration

\* if ! sudo iptables -t nat -C <chain> ...; then
Recheck(p, c, absent, next) ==
    /\ IF PORT_FORWARDING_DISABLED[p] /\ Has(p, c)
       THEN \E r \in CheckResults(c) :
              /\ Log(p, Event("check", c, r, <<>>))
              /\ Goto(p, IF r = "present" THEN next ELSE absent)
       ELSE Goto(p, next) /\ UNCHANGED calls
    /\ UNCHANGED <<nat, saved, runs, creds, snapshot, PUBLIC_IP, reply, message, exitCode>>

\* Readd without the iptables -A
Readd_NoInstall(p, c, next) ==
    /\ Goto(p, next)
    /\ UNCHANGED <<nat, calls, saved, runs, creds, snapshot, PUBLIC_IP, reply, message,
                   exitCode>>

Readd(p, c, next) ==
    /\ Install(p, c)
    /\ Goto(p, next)
    /\ UNCHANGED <<saved, runs, creds, snapshot, PUBLIC_IP, reply, message, exitCode>>

RecheckPrerouting(p) ==
    /\ pc[p] = "recheck_prerouting"
    /\ Recheck(p, "PREROUTING", "readd_prerouting", "recheck_output")

ReaddPrerouting(p) ==
    /\ pc[p] = "readd_prerouting"
    /\ Readd(p, "PREROUTING", "recheck_output")

RecheckOutput(p) ==
    /\ pc[p] = "recheck_output"
    /\ Recheck(p, "OUTPUT", "readd_output", "persist")

ReaddOutput(p) ==
    /\ pc[p] = "readd_output"
    /\ Readd(p, "OUTPUT", "persist")

\* command -v netfilter-persistent: not installed, or installed and then
\* sudo netfilter-persistent save 2>/dev/null || true writes the live table or fails.
PersistOutcomes == {"unavailable", "ok", "fail"}

\* Persist without the test of PORT_FORWARDING_DISABLED
Persist_Unguarded(p) ==
    /\ pc[p] = "persist"
    /\ \E o \in PersistOutcomes :
         /\ saved' = IF o = "ok" THEN nat ELSE saved
         /\ Log(p, Event("persist", "netfilter-persistent", o, <<>>))
    /\ Goto(p, "check_result")
    /\ UNCHANGED <<nat, runs, creds, snapshot, PUBLIC_IP, reply, message, exitCode>>

\* Persist without the || true, in a script that stops at a failed command
Persist_Fatal(p) ==
    /\ pc[p] = "persist"
    /\ IF PORT_FORWARDING_DISABLED[p]
       THEN \E o \in PersistOutcomes :
              /\ saved' = IF o = "ok" THEN nat ELSE saved
              /\ Log(p, Event("persist", "netfilter-persistent", o, <<>>))
              /\ IF o = "fail"
                 THEN /\ Goto(p, "exited")
                      /\ exitCode' = [exitCode EXCEPT ![p] = 1]
                 ELSE Goto(p, "check_result") /\ UNCHANGED exitCode
       ELSE Goto(p, "check_result") /\ UNCHANGED <<saved, calls, exitCode>>
    /\ UNCHANGED <<nat, runs, creds, snapshot, PUBLIC_IP, reply, message>>

Persist(p) ==
    /\ pc[p] = "persist"
    /\ IF PORT_FORWARDING_DISABLED[p]
       THEN \E o \in PersistOutcomes :
              /\ saved' = IF o = "ok" THEN nat ELSE saved
              /\ Log(p, Event("persist", "netfilter-persistent", o, <<>>))
       ELSE UNCHANGED <<saved, calls>>
    /\ Goto(p, "check_result")
    /\ UNCHANGED <<nat, runs, creds, snapshot, PUBLIC_IP, reply, message, exitCode>>

-----------------------------------------------------------------------------
\* The verdict

\* IsSuccess taking every 2xx status for a success
IsSuccess_Any2xx(code) == ToInt(code) \div 100 = 2

\* [ "$HTTP_CODE" -eq 200 ]
IsSuccess(code) == ToInt(code) = 200

\* CheckResult without the exit 1 of the else branch: the script ends with the
\* status of its last command, the echo of the diagnostics
CheckResult_NoExitOne(p) ==
    /\ pc[p] = "check_result"
    /\ IF IsSuccess(HTTP_CODE[p])
       THEN Exit(p, 0, "SUCCESS")
       ELSE Exit(p, 0, "ERROR: Registration failed")
    /\ UNCHANGED <<nat, saved, runs, creds, snapshot, PUBLIC_IP, reply, calls>>

CheckResult(p) ==
    /\ pc[p] = "check_result"
    /\ IF IsSuccess(HTTP_CODE[p])
       THEN Exit(p, 0, "SUCCESS")
       ELSE Exit(p, 1, "ERROR: Registration failed")
    /\ UNCHANGED <<nat, saved, runs, creds, snapshot, PUBLIC_IP, reply, calls>>

-----------------------------------------------------------------------------

Next ==
    \/ \E p \in runs : PromptInputs(p)
    \/ \E p \in runs : ValidateInputs(p)
    \/ \E p \in runs : InspectPrerouting(p)
    \/ \E p \in runs : InspectOutput(p)
    \/ \E p \in runs : SuspendPrerouting(p)
    \/ \E p \in runs : SuspendOutput(p)
    \/ \E p \in runs : TryMetadata(p)
    \/ \E p \in runs : TryCheckipHttps(p)
    \/ \E p \in runs : TryIpifyHttps(p)
    \/ \E p \in runs : TryCheckipHttp(p)
    \/ \E p \in runs : ValidateIp(p)
    \/ \E p \in runs : FailRestorePrerouting(p)
    \/ \E p \in runs : FailRestoreOutput(p)
    \/ \E p \in runs : ExitAddressUnavailable(p)
    \/ \E p \in runs : Register(p)
    \/ \E p \in runs : RecheckPrerouting(p)
    \/ \E p \in runs : ReaddPrerouting(p)
    \/ \E p \in runs : RecheckOutput(p)
    \/ \E p \in runs : ReaddOutput(p)
    \/ \E p \in runs : Persist(p)
    \/ \E p \in runs : CheckResult(p)

Spec == Init /\ [][Next]_vars

\* The steps of a run that end by themselves: every command but the two that
\* wait for someone else without a limit, read -p (the operator) and the
\* registration curl (the server; it is given no --max-time). The discovery
\* curls return when their --max-time elapses at the latest.
BoundedStep(p) ==
    /\ p \in runs
    /\ \/ ValidateInputs(p)
       \/ InspectPrerouting(p)
       \/ InspectOutput(p)
       \/ SuspendPrerouting(p)
       \/ SuspendOutput(p)
       \/ TryMetadata(p)
       \/ TryCheckipHttps(p)
       \/ TryIpifyHttps(p)
       \/ TryCheckipHttp(p)
       \/ ValidateIp(p)
       \/ FailRestorePrerouting(p)
       \/ FailRestoreOutput(p)
       \/ ExitAddressUnavailable(p)
       \/ RecheckPrerouting(p)
       \/ ReaddPrerouting(p)
       \/ RecheckOutput(p)
       \/ ReaddOutput(p)
       \/ Persist(p)
       \/ CheckResult(p)

\* A run goes on as long as a command that ends by itself is its next step.
SpecLive == Spec /\ \A p \in RunIds : WF_vars(BoundedStep(p))

-----------------------------------------------------------------------------
\* The text handling of the script on its own: the HTTP fallback block from the
\* moment curl has ended, and the final check, over every short text.

MaxLen == 8

\* A digit, the dot, a letter, a white-space character.
Alphabet == {"1", ".", "a", "\n"}

\* Outputs worth a look that the alphabet does not spell.
Examples ==
    { <<"1", ".", "2", ".", "3">>,
      <<"a", "b", "c", ".", "d", "e", "f", ".", "1", ".", "1">>,
      <<"2", "0", "3", ".", "0", ".", "1", "1", "3", ".", "7">>,
      <<"9", "9", "9", ".", "1", ".", "1", ".", "1">>,
      <<"1", ".", "2", ".", "3", ".", "4", " ", "a">>,
      <<"1", ".", "2", ".", "3", ".", "4", "5", "6", "7">>,
      <<"a", "\n", "1", ".", "2", ".", "3", ".", "4">> }

Texts == UNION {[1..n -> Alphabet] : n \in 0..MaxLen} \cup Examples

\* PUBLIC_IP=$(curl ...): what the variable can hold when curl has ended.
Captured == {CmdSubst(t) : t \in Texts}

\* A run at the if of line 108, or at the check of line 114, PUBLIC_IP holding
\* any captured text.
InitText ==
    /\ nat = [c \in Chains |-> 0]
    /\ saved = nat
    /\ runs = {"run1"}
    /\ pc \in {[p \in RunIds |-> IF p \in runs THEN l ELSE "prompt"] :
                 l \in {"checkip_http_captured", "validate_ip"}}
    /\ USERNAME = [p \in RunIds |-> IF p \in runs THEN "value" ELSE ""]
    /\ LABEL = USERNAME
    /\ TOKEN = USERNAME
    /\ HAS_PREROUTING = [p \in RunIds |-> FALSE]
    /\ HAS_OUTPUT = [p \in RunIds |-> FALSE]
    /\ PORT_FORWARDING_DISABLED = [p \in RunIds |-> FALSE]
    /\ PUBLIC_IP \in {[p \in RunIds |-> IF p \in runs THEN t ELSE <<>>] : t \in Captured}
    /\ HTTP_CODE = [p \in RunIds |-> <<>>]
    /\ BODY = [p \in RunIds |-> <<>>]
    /\ message = [p \in RunIds |-> ""]
    /\ exitCode = [p \in RunIds |-> -1]
    /\ calls = [p \in RunIds |-> <<>>]

\* The rest of the HTTP fallback block once curl has ended with status rc:
\* if it is 0, PUBLIC_IP is replaced by what the clean-up leaves of it.
CleanFallback(p) ==
    /\ pc[p] = "checkip_http_captured"
    /\ \E rc \in CurlExits :
         /\ PUBLIC_IP' = [PUBLIC_IP EXCEPT ![p] = FallbackSource(@, rc)]
         /\ Log(p, Event("discover", Sources[4], rc, Yielded(4, PUBLIC_IP[p], rc)))
    /\ Goto(p, "validate_ip")
    /\ UNCHANGED <<nat, saved, runs, creds, snapshot, reply, message, exitCode>>

NextText ==
    \/ \E p \in runs : CleanFallback(p)
    \/ \E p \in runs : ValidateIp(p)

SpecText == InitText /\ [][NextText]_vars

-----------------------------------------------------------------------------
\* Vocabulary of the properties

Exited(p) == pc[p] = "exited"

\* A copy of the redirect rule of chain c is in the live NAT table.
Live(c) == nat[c] > 0

Ev(p) == DOMAIN calls[p]

\* The run issued the command op on arg.
Issued(p, op, arg) == \E i \in Ev(p) : calls[p][i].op = op /\ calls[p][i].arg = arg

\* Some command of the run among ops ended in a failure.
SomeFailed(p, ops) ==
    \E i \in Ev(p) : calls[p][i].op \in ops /\ calls[p][i].res \in {"fail", "error"}

\* The run took its snapshot of the two rules.
SnapshotTaken(p) == Issued(p, "inspect", "PREROUTING") /\ Issued(p, "inspect", "OUTPUT")

\* The positions of the discovery requests of the run, and their number.
DiscoverEvents(p) == {i \in Ev(p) : calls[p][i].op = "discover"}
Invoked(p, k) == Issued(p, "discover", Sources[k])
EventOf(p, k) == calls[p][CHOOSE i \in Ev(p) :
                            calls[p][i].op = "discover" /\ calls[p][i].arg = Sources[k]]

\* The run sent a registration request.
Registered(p) == \E i \in Ev(p) : calls[p][i].op = "register"
RegisterEvent(p) == calls[p][CHOOSE i \in Ev(p) : calls[p][i].op = "register"]

\* After the removal of the rule of chain c, the run either issued iptables -A
\* for it or found it in place with iptables -C: the two forms the restoration
\* of a rule takes in the script.
RestoreAttempted(p, c) ==
    \E i \in Ev(p) :
       /\ calls[p][i].arg = c
       /\ \/ calls[p][i].op = "install"
          \/ calls[p][i].op = "check" /\ calls[p][i].res = "present"
       /\ \E j \in 1..(i - 1) : calls[p][j].op = "remove" /\ calls[p][j].arg = c

-----------------------------------------------------------------------------
C2_RestorationBeforeExit ==
    \A p \in runs :
       (Exited(p) /\ PORT_FORWARDING_DISABLED[p])
          => \A c \in Chains : Has(p, c) => RestoreAttempted(p, c)

\* A run that suspended both rules, found no address and exited.
C2_Witness ==
    \E p \in runs :
       /\ Exited(p) /\ PORT_FORWARDING_DISABLED[p]
       /\ HAS_PREROUTING[p] /\ HAS_OUTPUT[p]
       /\ ~Registered(p)
       /\ message[p] = "ERROR: Could not determine public IP address"

\* C3: a run one of whose three inputs is empty after the prompts issues no
\* command at all (no iptables, no persist, no discovery, no registration),
\* never passes the validation, and exits with code 1.
C3_FailFastOnMissingCredentials ==
    \A p \in runs :
       (pc[p] # "prompt" /\ (USERNAME[p] = "" \/ LABEL[p] = "" \/ TOKEN[p] = ""))
          => /\ pc[p] \in {"validate", "exited"}
             /\ calls[p] = <<>>
             /\ Exited(p) =>
                  /\ exitCode[p] = 1
                  /\ message[p] = "ERROR: Username, token, and label are all required"

\* A run that exited for want of the label alone.
C3_Witness ==
    \E p \in runs :
       /\ Exited(p) /\ exitCode[p] = 1
       /\ USERNAME[p] # "" /\ TOKEN[p] # "" /\ LABEL[p] = ""

\* C4: a run in which all four sources were asked and none yielded a dotted
\* quad issues iptables -A for every rule of its snapshot, sends no
\* registration request and exits with code 1 saying that the address could
\* not be determined.
AllFourFailed(p) ==
    \A k \in 1..4 : Invoked(p, k) /\ EventOf(p, k).val = <<>>

C4_DiscoveryFailurePath ==
    \A p \in runs :
       AllFourFailed(p) =>
          /\ ~Registered(p)
          /\ Exited(p) =>
               /\ exitCode[p] = 1
               /\ message[p] = "ERROR: Could not determine public IP address"
               /\ \A c \in Chains : Has(p, c) => Issued(p, "install", c)

\* C5: a run that sent the registration request exits with code 0 exactly
\* when the status of the response is 200.
C5_SuccessPredicate ==
    \A p \in runs :
       (Exited(p) /\ Registered(p))
          => (exitCode[p] = 0 <=> StatusOf(RegisterEvent(p)) = <<"2", "0", "0">>)

\* A run that got status 201 and exited with code 1.
C5_Witness ==
    \E p \in runs :
       /\ Exited(p) /\ Registered(p)
       /\ StatusOf(RegisterEvent(p)) = <<"2", "0", "1">>
       /\ exitCode[p] = 1

\* C6: a run exits with code 0 only if the registration returned 200 and
\* every rule of its snapshot is live at the exit; a run one of whose
\* re-installs failed exits with code 1.
C6_ExitZeroMeansFullSuccess ==
    \A p \in runs :
       Exited(p) =>
          /\ exitCode[p] = 0 =>
               /\ Registered(p) /\ StatusOf(RegisterEvent(p)) = <<"2", "0", "0">>
               /\ \A c \in Chains : Has(p, c) => Live(c)
          /\ SomeFailed(p, {"install"}) => exitCode[p] = 1

\* C7: the discovery requests of a run are those of the first n sources, in
\* the order of the chain and each once; every source before the last one
\* asked yielded no dotted quad; and when the last one asked yielded a dotted
\* quad, that is the value of PUBLIC_IP from then on and the address of the
\* registration request.
C7_DiscoveryOrdering ==
    \A p \in runs :
       LET n == Cardinality(DiscoverEvents(p))
       IN  /\ n <= 4
           /\ \A i \in DiscoverEvents(p), j \in DiscoverEvents(p) :
                 i < j => \E k \in 1..3, m \in 2..4 :
                             k < m /\ calls[p][i].arg = Sources[k] /\ calls[p][j].arg = Sources[m]
           /\ \A k \in 1..4 : Invoked(p, k) <=> k <= n
           /\ \A k \in 1..4 : (Invoked(p, k) /\ k < n) => EventOf(p, k).val = <<>>
           /\ (n >= 1 /\ EventOf(p, n).val # <<>>) =>
                 /\ PUBLIC_IP[p] = EventOf(p, n).val
                 /\ Registered(p) => IpAddressOf(RegisterEvent(p)) = EventOf(p, n).val

\* A run whose first source printed a malformed text, whose second source
\* yielded 203.0.113.7, and which asked no other source and registered it.
C7_Witness ==
    \E p \in runs :
       /\ Cardinality(DiscoverEvents(p)) = 2
       /\ EventOf(p, 1).res = "ok" /\ EventOf(p, 1).val = <<>>
       /\ EventOf(p, 2).val = <<"2", "0", "3", ".", "0", ".", "1", "1", "3", ".", "7">>
       /\ Registered(p)
       /\ IpAddressOf(RegisterEvent(p)) = EventOf(p, 2).val

\* C8: when one of the first three sources ended in a transport error or
\* yielded no dotted quad, the next source is asked: once the chain is past
\* the block of source k + 1, that source has been invoked.
PastBlock(p, k) ==
    pc[p] \notin {"prompt", "validate", "inspect_prerouting", "inspect_output",
                  "suspend_prerouting", "suspend_output"}
            \cup {Sources[j] : j \in 1..k}

SourceFailed(p, k) ==
    Invoked(p, k) /\ (EventOf(p, k).res = "fail" \/ EventOf(p, k).val = <<>>)

C8_ChainAdvancesOnFailure ==
    \A p \in runs : \A k \in 1..3 :
       (SourceFailed(p, k) /\ PastBlock(p, k + 1)) => Invoked(p, k + 1)

\* C9: the ipAddress of every registration request is, as a whole text, one
\* dotted quad.
C9_OnlyDottedQuadRegistered ==
    \A p \in runs : \A i \in Ev(p) :
       calls[p][i].op = "register" => LineIsQuad(IpAddressOf(calls[p][i]))

\* C10: when the plain-HTTP source has just been asked, the three sources
\* before it were asked and failed, and neither redirect rule is live.
C10_FallbackOnlyUnderSuspendedRedirect ==
    \A p \in runs :
       (pc[p] = "validate_ip" /\ Invoked(p, 4))
          => /\ \A k \in 1..3 : SourceFailed(p, k)
             /\ \A c \in Chains : ~Live(c)

-----------------------------------------------------------------------------
\* The command the run p issues in the step at hand, if it issues one.
IssuesNow(p) == Len(calls'[p]) = Len(calls[p]) + 1
EventNow(p) == calls'[p][Len(calls'[p])]

\* C11: an iptables -A issued while a copy of the rule is live leaves the
\* NAT table as it is, and so does an iptables -D issued while no copy is.
C11_InstallRemoveIdempotent ==
    [][\A p \in runs : \A c \in Chains :
          (IssuesNow(p) /\ EventNow(p).arg = c) =>
             /\ (EventNow(p).op = "install" /\ Live(c)) => nat'[c] = nat[c]
             /\ (EventNow(p).op = "remove" /\ ~Live(c)) => nat'[c] = nat[c]]_vars

\* C12: a run one of whose removals failed asks no discovery source, sends no
\* registration request and exits with code 1.
C12_SuspensionErrorAborts ==
    \A p \in runs :
       SomeFailed(p, {"remove"}) =>
          /\ DiscoverEvents(p) = {}
          /\ ~Registered(p)
          /\ Exited(p) => exitCode[p] = 1

\* What a run holds and has told the operator: its three redirect variables,
\* its last SUCCESS/ERROR line, its exit status.
Visible(p) ==
    <<HAS_PREROUTING[p], HAS_OUTPUT[p], PORT_FORWARDING_DISABLED[p], message[p],
      exitCode[p]>>

\* The same, had the query on chain c found the rule absent.
VisibleHadItBeenAbsent(p, c) ==
    <<IF c = "PREROUTING" THEN FALSE ELSE HAS_PREROUTING[p],
      IF c = "OUTPUT" THEN FALSE ELSE HAS_OUTPUT[p],
      PORT_FORWARDING_DISABLED[p], message[p], exitCode[p]>>

\* C13: an inspection query that failed leaves the run in a state that
\* differs from the one a query that found the rule absent leaves.
C13_InspectorTellsFailureFromAbsence ==
    [][\A p \in runs : \A c \in Chains :
          (/\ IssuesNow(p)
           /\ EventNow(p).op = "inspect"
           /\ EventNow(p).arg = c
           /\ EventNow(p).res = "error")
             => Visible(p)' # VisibleHadItBeenAbsent(p, c)']_vars

\* C14: a run whose snapshot shows both rules absent issues no iptables -D,
\* no iptables -A and no persist, on any path.
SnapshotEmpty(p) ==
    /\ pc[p] \notin {"prompt", "validate", "inspect_prerouting", "inspect_output"}
    /\ SnapshotTaken(p)
    /\ ~HAS_PREROUTING[p] /\ ~HAS_OUTPUT[p]

C14_NoOpFastPath ==
    \A p \in runs :
       SnapshotEmpty(p) =>
          /\ ~PORT_FORWARDING_DISABLED[p]
          /\ \A i \in Ev(p) : calls[p][i].op \notin {"remove", "install", "persist"}

\* A run with both rules absent that registered with status 200 and exited.
C14_Witness ==
    \E p \in runs :
       /\ Exited(p) /\ SnapshotEmpty(p) /\ Registered(p) /\ exitCode[p] = 0
       /\ \A c \in Chains : ~Live(c)

\* C15: with both rules in the snapshot, once a restoration block is over,
\* a failed iptables -A PREROUTING is followed by the restoration of the
\* OUTPUT rule (iptables -A, or iptables -C and then -A if it is not found).
AfterRestoration(p) == pc[p] \in {"fail_exit", "persist", "check_result", "exited"}

C15_RestorationPerRule ==
    \A p \in runs : \A i \in Ev(p) :
       (/\ HAS_PREROUTING[p] /\ HAS_OUTPUT[p]
        /\ calls[p][i] = Event("install", "PREROUTING", "fail", <<>>)
        /\ AfterRestoration(p))
          => \E j \in Ev(p) :
                /\ j > i
                /\ calls[p][j].arg = "OUTPUT"
                /\ calls[p][j].op \in {"install", "check"}

\* A run that found no address, failed to put the PREROUTING rule back, put
\* the OUTPUT rule back and exited.
C15_Witness ==
    \E p \in runs :
       /\ Exited(p) /\ HAS_PREROUTING[p] /\ HAS_OUTPUT[p] /\ ~Registered(p)
       /\ \E i \in Ev(p), j \in Ev(p) :
             /\ i < j
             /\ calls[p][i] = Event("install", "PREROUTING", "fail", <<>>)
             /\ calls[p][j] = Event("install", "OUTPUT", "ok", <<>>)

\* The persist steps of a run.
PersistEvents(p) == {i \in Ev(p) : calls[p][i].op = "persist"}

\* C16: whatever the persist step came to (tool not installed, save done,
\* save failed), a run that sent the registration request ends with the
\* verdict, and its exit code is the one of the status of the response: 0 for
\* 200, else 1.
C16_PersistNotFatal ==
    \A p \in runs : \A i \in PersistEvents(p) :
       /\ calls[p][i].res \in PersistOutcomes
       /\ Registered(p)
       /\ Exited(p) =>
            /\ message[p] \in {"SUCCESS", "ERROR: Registration failed"}
            /\ exitCode[p] =
                 IF StatusOf(RegisterEvent(p)) = <<"2", "0", "0">> THEN 0 ELSE 1

\* A run whose save failed and which exited with code 0.
C16_Witness ==
    \E p \in runs :
       /\ Exited(p) /\ exitCode[p] = 0
       /\ \E i \in PersistEvents(p) : calls[p][i].res = "fail"

\* C17: a run sends at most one registration request, and only with the
\* three inputs set and after a source yielded the dotted quad it sends.
C17_SingleRegistration ==
    \A p \in runs :
       /\ Cardinality({i \in Ev(p) : calls[p][i].op = "register"}) <= 1
       /\ Registered(p) =>
            /\ USERNAME[p] # "" /\ LABEL[p] # "" /\ TOKEN[p] # ""
            /\ \E k \in 1..4 :
                  /\ Invoked(p, k)
                  /\ EventOf(p, k).val # <<>>
                  /\ EventOf(p, k).val = IpAddressOf(RegisterEvent(p))

\* The lines by which the script reports its outcome; none of them is about
\* an iptables command.
Verdicts ==
    {"", "SUCCESS",
     "ERROR: Username, token, and label are all required",
     "ERROR: Could not determine public IP address",
     "ERROR: Registration failed"}

\* C18: a run one of whose iptables -D or -A commands failed has, when it
\* exits, reported an error other than the verdicts above.
C18_RestorationFailureSurfaced ==
    \A p \in runs :
       (Exited(p) /\ SomeFailed(p, {"remove", "install"})) => message[p] \notin Verdicts

\* The restoration steps of a run: iptables -A and the iptables -C before it.
RestoreEvents(p) == {i \in Ev(p) : calls[p][i].op \in {"install", "check"}}

\* C19: a run that went through a restoration step has, when it exits, gone
\* through the persist step after it.
C19_PersistFollowsRestoration ==
    \A p \in runs :
       (Exited(p) /\ RestoreEvents(p) # {})
          => \E j \in PersistEvents(p) : \A i \in RestoreEvents(p) : i < j

\* C20: a run that suspended a rule exits in the end.
C20_EventualRestoration ==
    \A p \in RunIds : (p \in runs /\ PORT_FORWARDING_DISABLED[p]) ~> Exited(p)

\* The answer the inspection query on chain c got.
InspectEvent(p, c) ==
    calls[p][CHOOSE i \in Ev(p) : calls[p][i].op = "inspect" /\ calls[p][i].arg = c]

\* C21: once the snapshot is taken, HAS_PREROUTING and HAS_OUTPUT stay what
\* the two inspection queries made them, and every iptables -D and -A of the
\* run is on a rule the snapshot has as present.
C21_SnapshotImmutable ==
    \A p \in runs :
       /\ SnapshotTaken(p) =>
            \A c \in Chains : Has(p, c) = (InspectEvent(p, c).res = "present")
       /\ \A i \in Ev(p) :
            calls[p][i].op \in {"remove", "install"} => Has(p, calls[p][i].arg)

\* A run that took the PREROUTING rule out and put it back while the OUTPUT
\* rule, live but missed by its query, stayed as it was.
C21_Witness ==
    \E p \in runs :
       /\ Exited(p) /\ HAS_PREROUTING[p] /\ ~HAS_OUTPUT[p] /\ Live("OUTPUT")
       /\ Issued(p, "remove", "PREROUTING") /\ Issued(p, "install", "PREROUTING")

\* The lines that report the outcome of a run that got past the validation.
Outcomes ==
    {"SUCCESS", "ERROR: Registration failed",
     "ERROR: Could not determine public IP address"}

\* The stage of the script a command belongs to.
Stage(op) ==
    CASE op = "inspect" -> 1
      [] op = "remove" -> 2
      [] op = "discover" -> 3
      [] op = "register" -> 4
      [] op \in {"check", "install"} -> 5
      [] op = "persist" -> 6

\* C22: the commands of a run come in the order of the stages: removals
\* before every discovery request, discovery requests before the registration
\* request, every iptables -A after the registration request or, when none is
\* sent, after the last discovery request; and an outcome is reported only
\* at the exit, when each rule of the snapshot had its restoration step.
C22_StageOrdering ==
    \A p \in runs :
       /\ \A i \in Ev(p) :
            i > 1 => Stage(calls[p][i - 1].op) <= Stage(calls[p][i].op)
       /\ message[p] \in Outcomes =>
            /\ Exited(p)
            /\ PORT_FORWARDING_DISABLED[p] =>
                 \A c \in Chains :
                    Has(p, c) => \E i \in Ev(p) : /\ calls[p][i].arg = c
                                                  /\ calls[p][i].op \in {"install", "check"}

\* A run that removed a rule, asked a source, registered, put the rule back
\* and reported its outcome.
C22_Witness ==
    \E p \in runs :
       /\ Exited(p) /\ message[p] = "SUCCESS"
       /\ Issued(p, "remove", "OUTPUT") /\ Issued(p, "install", "OUTPUT")
       /\ DiscoverEvents(p) # {} /\ Registered(p)

\* What python3 -m json.tool makes of a body: nothing to show, a JSON text
\* to pretty-print, or a text it refuses, which is then printed as it is.
BodyKinds == {"empty", "json", "raw"}
BodyKind(b) == IF b = <<>> THEN "empty" ELSE IF b = <<"{", "}">> THEN "json" ELSE "raw"

\* C24: a run whose registration got a status other than 200 exits with
\* code 1, be the body empty, a JSON text or a text printed raw.
C24_DiagnosticsKeepVerdict ==
    \A p \in runs : \A kind \in BodyKinds :
       (/\ Exited(p) /\ Registered(p)
        /\ StatusOf(RegisterEvent(p)) # <<"2", "0", "0">>
        /\ BodyKind(BODY[p]) = kind)
          => exitCode[p] = 1 /\ message[p] = "ERROR: Registration failed"

\* A run that got status 404 with a body that is no JSON, and exited.
C24_Witness ==
    \E p \in runs :
       /\ Exited(p) /\ Registered(p) /\ exitCode[p] = 1
       /\ HTTP_CODE[p] = <<"4", "0", "4">> /\ BodyKind(BODY[p]) = "raw"

\* The commands of the runs on chain c that changed the NAT table.
Done(op, c) ==
    UNION {{<<p, i>> : i \in {j \in Ev(p) : calls[p][j] = Event(op, c, "ok", <<>>)}} :
             p \in runs}

\* The number of copies of the rule of chain c before the runs began.
InitialCopies(c) == nat[c] + Cardinality(Done("remove", c)) - Cardinality(Done("install", c))

\* C25: when a run has exited, each rule has as many copies in the NAT table
\* as it had before the run.
C25_MultiplicityPreserved ==
    \A p \in runs : Exited(p) => \A c \in Chains : nat[c] = InitialCopies(c)

\* C26: persist comes after every iptables command of the run, and when it
\* writes the rule set, every rule of the snapshot is in what it writes.
C26_PersistedStoreKeepsRules ==
    \A p \in runs : \A i \in PersistEvents(p) :
       /\ \A j \in Ev(p) :
            calls[p][j].op \in {"remove", "install", "check"} => j < i
       /\ calls[p][i].res = "ok" => \A c \in Chains : Has(p, c) => saved[c] > 0

\* The grammar of an address: four groups of one to three digits with a dot
\* between two groups.
IsDottedQuad(s) ==
    \E a \in 1..3, b \in 1..3, c \in 1..3, d \in 1..3 :
       /\ Len(s) = a + b + c + d + 3
       /\ \A i \in 1..Len(s) :
            IF i \in {a + 1, a + b + 2, a + b + c + 3} THEN s[i] = "." ELSE s[i] \in Digits

\* C23: the check of line 114 lets a text through exactly when the text is an
\* address of the grammar: it sends the run on to the registration for these
\* and to the failure path for every other text.
C23_FormatValidator ==
    \A p \in runs :
       /\ pc[p] = "register" => IsDottedQuad(PUBLIC_IP[p])
       /\ pc[p] = "fail_restore_prerouting" => ~IsDottedQuad(PUBLIC_IP[p])

\* A text without its white space.
Squeezed(s) == SelectSeq(s, LAMBDA ch : ch \notin {" ", "\n", "\t"})

\* The lengths of the beginnings of t that are addresses of the grammar.
QuadPrefixes(t) == {n \in 1..Len(t) : IsDottedQuad(SubSeq(t, 1, n))}

\* C28: the fourth source leaves a candidate that passes the final check
\* exactly when its output without the white space begins with an address,
\* and the candidate is then such a beginning.
C28_FallbackSanitisation ==
    [][\A p \in runs :
          pc[p] = "checkip_http_captured" =>
             LET t == Squeezed(PUBLIC_IP[p])
                 candidate == PUBLIC_IP'[p]
             IN  /\ ~IpRejected(candidate) <=> QuadPrefixes(t) # {}
                 /\ ~IpRejected(candidate) => \E n \in QuadPrefixes(t) : candidate = SubSeq(t, 1, n)]_vars

-----------------------------------------------------------------------------
\* Two runs of the script on one host, their commands interleaved.

\* Both runs are started with the three inputs in .env.
InitTwo ==
    /\ nat \in [Chains -> 0..MaxCopies]
    /\ saved = nat
    /\ runs = RunIds
    /\ pc = [p \in RunIds |-> "prompt"]
    /\ USERNAME = [p \in RunIds |-> "value"]
    /\ LABEL = [p \in RunIds |-> "value"]
    /\ TOKEN = [p \in RunIds |-> "value"]
    /\ HAS_PREROUTING = [p \in RunIds |-> FALSE]
    /\ HAS_OUTPUT = [p \in RunIds |-> FALSE]
    /\ PORT_FORWARDING_DISABLED = [p \in RunIds |-> FALSE]
    /\ PUBLIC_IP = [p \in RunIds |-> <<>>]
    /\ HTTP_CODE = [p \in RunIds |-> <<>>]
    /\ BODY = [p \in RunIds |-> <<>>]
    /\ message = [p \in RunIds |-> ""]
    /\ exitCode = [p \in RunIds |-> -1]
    /\ calls = [p \in RunIds |-> <<>>]

\* What the commands around the two runs do: iptables -D fails only when no
\* copy of the rule is there and iptables -C answers as the table is;
\* iptables -A can fail. The sources answer with an address or with nothing,
\* the server with 200, and the rule set is saved.
Calm(p) ==
    IssuesNow(p) =>
       LET e == EventNow(p)
       IN  /\ e.op = "remove" => (e.res = "fail" <=> nat[e.arg] = 0)
           /\ e.op \in {"inspect", "check"} => e.res # "error"
           /\ e.op = "discover" => e.res = "ok" /\ PUBLIC_IP'[p] = e.val
           /\ e.op = "register" => StatusOf(e) = <<"2", "0", "0">>
           /\ e.op = "persist" => e.res = "ok"

NextTwo ==
    \/ \E p \in runs : PromptInputs(p) /\ Calm(p)
    \/ \E p \in runs : ValidateInputs(p) /\ Calm(p)
    \/ \E p \in runs : InspectPrerouting(p) /\ Calm(p)
    \/ \E p \in runs : InspectOutput(p) /\ Calm(p)
    \/ \E p \in runs : SuspendPrerouting(p) /\ Calm(p)
    \/ \E p \in runs : SuspendOutput(p) /\ Calm(p)
    \/ \E p \in runs : TryMetadata(p) /\ Calm(p)
    \/ \E p \in runs : TryCheckipHttps(p) /\ Calm(p)
    \/ \E p \in runs : TryIpifyHttps(p) /\ Calm(p)
    \/ \E p \in runs : TryCheckipHttp(p) /\ Calm(p)
    \/ \E p \in runs : ValidateIp(p) /\ Calm(p)
    \/ \E p \in runs : FailRestorePrerouting(p) /\ Calm(p)
    \/ \E p \in runs : FailRestoreOutput(p) /\ Calm(p)
    \/ \E p \in runs : ExitAddressUnavailable(p) /\ Calm(p)
    \/ \E p \in runs : Register(p) /\ Calm(p)
    \/ \E p \in runs : RecheckPrerouting(p) /\ Calm(p)
    \/ \E p \in runs : ReaddPrerouting(p) /\ Calm(p)
    \/ \E p \in runs : RecheckOutput(p) /\ Calm(p)
    \/ \E p \in runs : ReaddOutput(p) /\ Calm(p)
    \/ \E p \in runs : Persist(p) /\ Calm(p)
    \/ \E p \in runs : CheckResult(p) /\ Calm(p)

SpecTwo == InitTwo /\ [][NextTwo]_vars

====
